---- MODULE Spec2Model ----
(***************************************************************************)
(* Tree/model synchronisation of autokey's CentralWidget                   *)
(* (lib/autokey/qtui/centralwidget.py).                                    *)
(*                                                                         *)
(* Entities (model.Folder / model.Phrase / model.Script) and presentation  *)
(* nodes (QTreeWidgetItem subclasses) are two pools of identities.  Every  *)
(* handler of CentralWidget is one action; inside an action the handler's  *)
(* statements are applied in program order to a state record s, and every  *)
(* call to a collaborator (monitor, persist, hotkey_removed,               *)
(* config_altered, add_item, ...) is appended to s.trace, the call         *)
(* sequence of the handler that ran last.                                  *)
(***************************************************************************)
EXTENDS Integers, Sequences, FiniteSets, TLC

\* Number of entity objects (and of presentation nodes) that can be alive
\* at the same time.
MaxEntities == 4

\* Number of handler calls in a run.
MaxOps == 4

\* Number of entities in a stored configuration.
MaxStored == 3

\* Number of handler calls that a stored configuration counts for.
StoredSteps == 1

\* Number of log records emitted in a run.
MaxRecords == 52

\* Number of hand-offs that can wait for the main thread at the same time.
MaxPosted == 2

\* Number of on_clear_log and on_save_log calls in a run.
MaxLogOps == 1

\* if self.widget.count() > 50
Capacity == 50

\* logging.INFO
INFO == 20

Ents == 1..MaxEntities
Nodes == 1..MaxEntities
\* Python None, for entity and node references alike.
None == 0

VARIABLES
    ent,        \* entity id -> model.Folder / model.Phrase / model.Script object
    node,       \* node id -> QTreeWidgetItem
    folders,    \* configManager.folders, the root folder list
    top,        \* the top-level items of treeWidget, in display order
    sel,        \* treeWidget.selectedItems(), as a set (Qt fixes no order)
    clip,       \* self.cutCopiedItems
    loaded,     \* the entity shown by stack.currentWidget()
    dirty,      \* self.dirty
    suspended,  \* state of app.monitor
    trace,      \* collaborator calls made by the handler that ran last
    last,       \* which handler ran last, and with which answer
    steps,      \* handler calls so far
    log         \* listWidget, the hand-offs posted to the main thread, the log file

widgetVars == <<ent, node, folders, top, sel, clip, loaded, dirty, suspended, trace,
                last, steps>>

vars == <<ent, node, folders, top, sel, clip, loaded, dirty, suspended, trace, last,
          steps, log>>

-----------------------------------------------------------------------------
(* Sequence helpers *)

Range(q) == {q[i] : i \in 1..Len(q)}

Count(q, x) == Cardinality({i \in 1..Len(q) : q[i] = x})

IndexOf(q, x) ==
    IF x \in Range(q) THEN CHOOSE i \in 1..Len(q) : q[i] = x /\ \A j \in 1..(i-1) : q[j] # x
    ELSE 0

\* Python list.remove(x): drops the first occurrence.
RemoveFirst(q, x) ==
    LET i == IndexOf(q, x)
    IN  IF i = 0 THEN q ELSE SubSeq(q, 1, i-1) \o SubSeq(q, i+1, Len(q))

\* All the orders in which the members of S can be listed.
Orders(S) ==
    {q \in [1..Cardinality(S) -> S] : \A i, j \in 1..Cardinality(S) : q[i] = q[j] => i = j}

Min(a, b) == IF a < b THEN a ELSE b

-----------------------------------------------------------------------------
(* Display labels and their collation order *)

Titles == {"A", "New Folder", "New Phrase", "New Script"}

Collate(t) ==
    CASE t = "" -> 0
      [] t = "A" -> 1
      [] t = "New Folder" -> 2
      [] t = "New Phrase" -> 3
      [] t = "New Script" -> 4

-----------------------------------------------------------------------------
(* Objects *)

FreeEnt == [kind |-> "None", title |-> "", parent |-> None, folders |-> <<>>,
            items |-> <<>>, path |-> FALSE, hotkey |-> FALSE]

FreeNode == [ent |-> None, parent |-> None, children |-> <<>>, text |-> ""]

\* model.Folder(title, path=path): no parent, no children, no modes.
FolderObject(title, hasPath) ==
    [kind |-> "Folder", title |-> title, parent |-> None, folders |-> <<>>,
     items |-> <<>>, path |-> hasPath, hotkey |-> FALSE]

\* model.Phrase(description, ...) / model.Script(description, ...).
LeafObject(kind, title) ==
    [kind |-> kind, title |-> title, parent |-> None, folders |-> <<>>,
     items |-> <<>>, path |-> FALSE, hotkey |-> FALSE]

IsFolder(s, e) == e # None /\ s.ent[e].kind = "Folder"
IsLeaf(s, e) == e # None /\ s.ent[e].kind \in {"Phrase", "Script"}

\* The program state as one record, so that a handler's statements compose.
Cur == [ent |-> ent, node |-> node, folders |-> folders, top |-> top, sel |-> sel,
        clip |-> clip, loaded |-> loaded, dirty |-> dirty, suspended |-> suspended,
        trace |-> <<>>, raised |-> FALSE]

\* F applied to the value of v, with v evaluated once.
With(v, F(_)) == CHOOSE r \in {F(x) : x \in {v}} : TRUE

\* A statement: skipped once an exception is on its way up.
Do(s0, F(_)) == With(s0, LAMBDA s : IF s.raised THEN s ELSE F(s))

Call(s, name, e) == [s EXCEPT !.trace = Append(@, <<name, e>>)]

\* An uncaught Python exception: the rest of the handler is skipped.
Raise(s, what) == [s EXCEPT !.trace = Append(@, <<"raise", None>>), !.raised = TRUE]

-----------------------------------------------------------------------------
(* Reachability and reclamation of unreferenced objects *)

EntSucc(s, e) == Range(s.ent[e].folders) \cup Range(s.ent[e].items)

RECURSIVE Closure(_, _, _)
Closure(s, S0, withParent) ==
    With(S0, LAMBDA S :
    With(S \cup UNION {EntSucc(s, e) : e \in S}
           \cup (IF withParent THEN {s.ent[e].parent : e \in S} \ {None} ELSE {}),
         LAMBDA T : IF T = S THEN S ELSE Closure(s, T, withParent)))

\* The entity e and everything listed below it.
Subtree(s, e) == Closure(s, {e}, FALSE)

\* Entities listed, at any depth, under the root folder list.
Attached(s) == Closure(s, Range(s.folders), FALSE)

RECURSIVE NodeClosure(_, _)
NodeClosure(s, S0) ==
    With(S0, LAMBDA S :
    With(S \cup UNION {Range(s.node[n].children) : n \in S},
         LAMBDA T : IF T = S THEN S ELSE NodeClosure(s, T)))

NodeSubtree(s, n) == NodeClosure(s, {n})

\* Nodes that belong to treeWidget.
InTree(s) == NodeClosure(s, Range(s.top))

\* Objects that some reference still reaches.
LiveNodes(s) == InTree(s)

LiveEnts(s) ==
    Closure(s, Range(s.folders) \cup Range(s.clip) \cup ({s.loaded} \ {None})
               \cup {s.node[n].ent : n \in LiveNodes(s)}, TRUE)

\* Python drops objects nothing refers to; their identities can be reused.
Reclaim(s0) ==
    With(s0, LAMBDA s :
    With(LiveEnts(s), LAMBDA liveEnts :
    With(LiveNodes(s), LAMBDA liveNodes :
        [s EXCEPT !.ent = [e \in Ents |-> IF e \in liveEnts THEN s.ent[e] ELSE FreeEnt],
                  !.node = [n \in Nodes |-> IF n \in liveNodes THEN s.node[n]
                                            ELSE FreeNode]])))

FreeEnts(s) == {e \in Ents : s.ent[e].kind = "None"}
FreeNodes(s) == {n \in Nodes : s.node[n].ent = None}

\* The identity the next constructed object gets.
NextEnt(s) == CHOOSE e \in FreeEnts(s) : \A f \in FreeEnts(s) : e <= f
NextNode(s) == CHOOSE n \in FreeNodes(s) : \A m \in FreeNodes(s) : n <= m

\* The identity of the node constructed for entity e.  Which identity a new
\* object gets is immaterial; taking e's own number when it is free keeps
\* the two pools aligned.
NodeFor(s, e) == IF s.node[e].ent = None THEN e ELSE NextNode(s)

-----------------------------------------------------------------------------
(* Collaborators: app.monitor, model.*, the presentation toolkit *)

\* app.monitor.suspend() / app.monitor.unsuspend()
MonitorSuspend(s0) ==
    Do(s0, LAMBDA s : [Call(s, "suspend", None) EXCEPT !.suspended = TRUE])

MonitorUnsuspend(s0) ==
    Do(s0, LAMBDA s : [Call(s, "unsuspend", None) EXCEPT !.suspended = FALSE])

\* app.config_altered(persistGlobal)
ConfigAltered(s0) == Do(s0, LAMBDA s : Call(s, "config_altered", None))

\* entity.persist(): writes the entity; an unset path is computed first.
Persist(s0, e) ==
    Do(s0, LAMBDA s : [Call(s, "persist", e) EXCEPT !.ent[e].path = TRUE])

\* entity.path = None
ClearPath(s0, e) ==
    Do(s0, LAMBDA s : [Call(s, "path=None", e) EXCEPT !.ent[e].path = FALSE])

\* entity.remove_data(): the stored files of the entity and of everything
\* below it are deleted, which leaves their paths unset.
RemoveData(s0, e) ==
    Do(s0, LAMBDA s :
    With(Subtree(s, e), LAMBDA below :
        [Call(s, "remove_data", e) EXCEPT
            !.ent = [x \in Ents |-> IF x \in below
                                    THEN [s.ent[x] EXCEPT !.path = FALSE]
                                    ELSE s.ent[x]]]))

\* Folder.add_folder(folder) / Folder.add_item(item): set the back reference
\* and append to the child list.  Only a Folder has these methods.
AddFolder(s0, p, f) ==
    Do(s0, LAMBDA s :
        IF ~IsFolder(s, p) THEN Raise(s, "AttributeError")
        ELSE [Call(s, "add_folder", f) EXCEPT !.ent[f].parent = p,
                                              !.ent[p].folders = Append(@, f)])

AddItem(s0, p, x) ==
    Do(s0, LAMBDA s :
        IF ~IsFolder(s, p) THEN Raise(s, "AttributeError")
        ELSE [Call(s, "add_item", x) EXCEPT !.ent[x].parent = p,
                                            !.ent[p].items = Append(@, x)])

\* Folder.remove_folder(folder) / Folder.remove_item(item): list.remove.
RemoveFolder(s0, p, f) ==
    Do(s0, LAMBDA s :
        IF ~IsFolder(s, p) THEN Raise(s, "AttributeError")
        ELSE IF f \notin Range(s.ent[p].folders) THEN Raise(s, "ValueError")
        ELSE [Call(s, "remove_folder", f) EXCEPT !.ent[p].folders = RemoveFirst(@, f)])

RemoveItemFrom(s0, p, x) ==
    Do(s0, LAMBDA s :
        IF ~IsFolder(s, p) THEN Raise(s, "AttributeError")
        ELSE IF x \notin Range(s.ent[p].items) THEN Raise(s, "ValueError")
        ELSE [Call(s, "remove_item", x) EXCEPT !.ent[p].items = RemoveFirst(@, x)])

\* self.configManager.folders.append(folder) / .remove(folder)
RootAppend(s0, f) ==
    Do(s0, LAMBDA s : [Call(s, "folders.append", f) EXCEPT !.folders = Append(@, f)])

RootRemove(s0, f) ==
    Do(s0, LAMBDA s :
        IF f \notin Range(s.folders) THEN Raise(s, "ValueError")
        ELSE [Call(s, "folders.remove", f) EXCEPT !.folders = RemoveFirst(@, f)])

\* obj = model.Folder(...) / model.Phrase(...) / model.Script(...)
Construct(s0, e, object) == Do(s0, LAMBDA s : [s EXCEPT !.ent[e] = object])

\* new_obj.copy(source): the duplicate takes the content fields of the
\* source; it has a new identity and no parent.  A Folder has none of the
\* fields a Phrase or Script copies.
CopyFrom(s0, new, src, keepModes) ==
    Do(s0, LAMBDA s :
        IF ~IsLeaf(s, src) THEN Raise(s, "AttributeError")
        ELSE [s EXCEPT !.ent[new].title = s.ent[src].title,
                       !.ent[new].hotkey = keepModes /\ s.ent[src].hotkey])

-----------------------------------------------------------------------------
(* Selection *)

\* __getSelection without the filter on the parent.
GetSelection_Unfiltered(s, ord) ==
    With([i \in 1..Len(ord) |-> s.node[ord[i]].ent], LAMBDA ret : ret)

\* __getSelection, with selectedItems() returning the nodes in order ord.
GetSelection(s, ord) ==
    With([i \in 1..Len(ord) |-> s.node[ord[i]].ent], LAMBDA ret :
        SelectSeq(ret, LAMBDA f : s.ent[f].parent \notin Range(ret)))

\* on_treeWidget_itemSelectionChanged
ItemSelectionChanged(s0) ==
    Do(s0, LAMBDA s :
    With(GetSelection(s, CHOOSE q \in Orders(s.sel) : TRUE), LAMBDA model_items :
        IF Len(model_items) = 1
        THEN [s EXCEPT !.loaded = model_items[1], !.dirty = FALSE]
        ELSE s))

\* The toolkit changes the selection and emits itemSelectionChanged, to
\* which the handler above is connected by name.
SetSelection(s0, S) ==
    Do(s0, LAMBDA s :
        IF S = s.sel THEN s ELSE ItemSelectionChanged([s EXCEPT !.sel = S]))

\* treeWidget.setCurrentItem(item): the item becomes the only selected one;
\* an item that is not in the tree (or None) clears the selection.
SetCurrentItem(s0, n) ==
    Do(s0, LAMBDA s : SetSelection(s, IF n # None /\ n \in InTree(s) THEN {n} ELSE {}))

\* treeWidget.setItemSelected(item, select)
SetItemSelected(s0, n, on) ==
    Do(s0, LAMBDA s :
        IF n = None \/ n \notin InTree(s) THEN s
        ELSE SetSelection(s, IF on THEN s.sel \cup {n} ELSE s.sel \ {n}))

-----------------------------------------------------------------------------
(* Presentation nodes *)

\* ak_tree.FolderWidgetItem(parent, e) and its siblings for Phrase and
\* Script: the node shows e's title and is appended to parent, if any.
NewItem(s0, n, parent, e) ==
    Do(s0, LAMBDA s :
    With([s EXCEPT !.node[n] = [ent |-> e, parent |-> parent, children |-> <<>>,
                                text |-> s.ent[e].title]],
         LAMBDA made : IF parent = None THEN made
                       ELSE [made EXCEPT !.node[parent].children = Append(@, n)]))

\* treeWidget.addTopLevelItem(item)
AddTopLevelItem(s0, n) == Do(s0, LAMBDA s : [s EXCEPT !.top = Append(@, n)])

\* treeWidget.takeTopLevelItem(index); removed nodes leave the selection.
TakeTopLevelItem(s0, n) ==
    Do(s0, LAMBDA s :
        IF n \notin Range(s.top) THEN s
        ELSE SetSelection([s EXCEPT !.top = RemoveFirst(@, n)], s.sel \ NodeSubtree(s, n)))

\* parent.removeChild(child)
RemoveChild(s0, p, n) ==
    Do(s0, LAMBDA s :
        IF n \notin Range(s.node[p].children) THEN s
        ELSE With([s EXCEPT !.node[p].children = RemoveFirst(@, n),
                            !.node[n].parent = None],
                  LAMBDA cut : IF p \in InTree(s)
                               THEN SetSelection(cut, s.sel \ NodeSubtree(s, n))
                               ELSE cut))

\* target.addChild(source): ignored for a node that still has a parent or
\* still belongs to the tree.
AddChild(s0, t, n) ==
    Do(s0, LAMBDA s :
        IF s.node[n].parent # None \/ n \in InTree(s) THEN s
        ELSE [s EXCEPT !.node[t].children = Append(@, n), !.node[n].parent = t])

\* Stable insertion sort by display label.
RECURSIVE InsertByText(_, _, _)
InsertByText(s, q0, n) ==
    With(q0, LAMBDA q :
        IF q = <<>> THEN <<n>>
        ELSE IF Collate(s.node[n].text) < Collate(s.node[Head(q)].text)
             THEN <<n>> \o q
             ELSE <<Head(q)>> \o InsertByText(s, Tail(q), n))

RECURSIVE SortByText(_, _)
SortByText(s, q) ==
    IF q = <<>> THEN <<>>
    ELSE InsertByText(s, SortByText(s, SubSeq(q, 1, Len(q) - 1)), q[Len(q)])

\* treeWidget.sortItems(0, Qt.AscendingOrder): every level of the tree.
SortItems(s0) ==
    Do(s0, LAMBDA s :
    With(InTree(s), LAMBDA inTree :
        [s EXCEPT !.top = SortByText(s, s.top),
                  !.node = [n \in Nodes |->
                              IF n \in inTree
                              THEN [s.node[n] EXCEPT !.children = SortByText(s, @)]
                              ELSE s.node[n]]]))

-----------------------------------------------------------------------------
(* Private methods of CentralWidget *)

\* __extractData(item): the entity behind a node.
ExtractData(s, n) == s.node[n].ent

\* __deleteHotkeys without the loop over theItem.folders.
HotkeyCalls_Shallow(s, theItem) ==
    (IF s.ent[theItem].hotkey THEN <<theItem>> ELSE <<>>)
    \o (IF IsFolder(s, theItem)
        THEN SelectSeq(s.ent[theItem].items, LAMBDA x : s.ent[x].hotkey)
        ELSE <<>>)

\* The entities __deleteHotkeys reports to app.hotkey_removed, in call order.
RECURSIVE HotkeyCalls(_, _), HotkeyCallsOfAll(_, _)
HotkeyCalls(s, theItem) ==
    (IF s.ent[theItem].hotkey THEN <<theItem>> ELSE <<>>)
    \o (IF IsFolder(s, theItem)
        THEN HotkeyCallsOfAll(s, s.ent[theItem].folders)
             \o SelectSeq(s.ent[theItem].items, LAMBDA x : s.ent[x].hotkey)
        ELSE <<>>)
HotkeyCallsOfAll(s, q) ==
    IF q = <<>> THEN <<>> ELSE HotkeyCalls(s, Head(q)) \o HotkeyCallsOfAll(s, Tail(q))

\* __removeItem without its call of __deleteHotkeys.
DeleteHotkeys_Skipped(s0, theItem) == s0

\* __deleteHotkeys
DeleteHotkeys(s0, theItem) ==
    Do(s0, LAMBDA s :
    With(HotkeyCalls(s, theItem), LAMBDA calls :
        [s EXCEPT !.trace = @ \o [i \in 1..Len(calls) |-> <<"hotkey_removed", calls[i]>>]]))

\* The end of __removeItem: the node that takes the place of the removed
\* one, or else the parent, becomes the current item.
SelectAfterRemoval(s0, parent, removed_index) ==
    Do(s0, LAMBDA s :
    With(IF parent = None THEN s.top ELSE s.node[parent].children, LAMBDA siblings :
    With(Min(removed_index, Len(siblings)), LAMBDA new_index :
        IF parent # None /\ Len(siblings) = 0 THEN SetCurrentItem(s, parent)
        ELSE SetCurrentItem(s, IF new_index = 0 THEN None ELSE siblings[new_index]))))

\* __removeItem taking the node out of the tree and leaving the entity in
\* the list that holds it.
Detach_NodeOnly(s0, widgetItem, parent, item) ==
    Do(s0, LAMBDA s :
        IF parent = None THEN TakeTopLevelItem(s, widgetItem)
        ELSE RemoveChild(s, parent, widgetItem))

\* The middle of __removeItem: the node leaves its parent node (or the
\* top level) and the entity its parent's list (or the root folder list).
Detach(s0, widgetItem, parent, item) ==
    Do(s0, LAMBDA s :
        IF parent = None
        THEN RootRemove(TakeTopLevelItem(s, widgetItem), item)
        ELSE With(RemoveChild(s, parent, widgetItem), LAMBDA c :
                 IF c.raised THEN c
                 ELSE IF IsFolder(c, item)
                      THEN RemoveFolder(c, c.ent[item].parent, item)
                      ELSE RemoveItemFrom(c, c.ent[item].parent, item)))

\* __removeItem
RemoveItem(s0, widgetItem) ==
    Do(s0, LAMBDA s :
    With(s.node[widgetItem].parent, LAMBDA parent :
    With(ExtractData(s, widgetItem), LAMBDA item :
    With(IF parent = None THEN IndexOf(s.top, widgetItem)
         ELSE IndexOf(s.node[parent].children, widgetItem), LAMBDA removed_index :
        SelectAfterRemoval(
            SortItems(RemoveData(Detach(DeleteHotkeys(s, item), widgetItem, parent, item),
                                 item)),
            parent, removed_index)))))

RECURSIVE RemoveItems(_, _)
RemoveItems(s, q) ==
    IF q = <<>> THEN s ELSE RemoveItems(RemoveItem(s, Head(q)), Tail(q))

\* [f for f in items if f.parent() not in items]
TopLevelItems(s, items) ==
    SelectSeq(items, LAMBDA f : s.node[f].parent \notin Range(items))

\* on_rename: treeWidget.editItem(selectedItems()[0], 0)
OnRename(s0) ==
    Do(s0, LAMBDA s :
        IF s.sel = {} THEN Raise(s, "IndexError") ELSE Call(s, "editItem", None))

\* The branch of __createFolder on parent_item.
AttachFolder(s0, parent_item, new_item, folder) ==
    Do(s0, LAMBDA s :
        IF parent_item # None
        THEN AddFolder(s, ExtractData(s, parent_item), folder)
        ELSE RootAppend(AddTopLevelItem(s, new_item), folder))

\* __createFolder
CreateFolder(s0, parent_item) ==
    Do(s0, LAMBDA s :
    With(NextEnt(s), LAMBDA folder :
    With(NodeFor(s, folder), LAMBDA new_item :
        OnRename(ItemSelectionChanged(SetCurrentItem(SortItems(
            MonitorUnsuspend(Persist(
                AttachFolder(
                    MonitorSuspend(
                        NewItem(Construct(s, folder, FolderObject("New Folder", FALSE)),
                                new_item, parent_item, folder)),
                    parent_item, new_item, folder),
                folder))),
            new_item))))))

\* child.path = None; child.persist(), for every child of a list
RECURSIVE ClearAndPersistAll(_, _)
ClearAndPersistAll(s, q) ==
    IF q = <<>> THEN s
    ELSE ClearAndPersistAll(Persist(ClearPath(s, Head(q)), Head(q)), Tail(q))

\* __moveRecurseUpdate; onStack are the folders whose update is in progress:
\* meeting one of them again means the recursion never returns and ends in
\* RecursionError.
RECURSIVE MoveRecurseUpdate(_, _, _), MoveRecurseUpdateAll(_, _, _)
MoveRecurseUpdate(s0, folder, onStack) ==
    Do(s0, LAMBDA s :
        IF folder \in onStack THEN Raise(s, "RecursionError")
        ELSE With(MoveRecurseUpdateAll(Persist(ClearPath(s, folder), folder),
                                       s.ent[folder].folders, onStack \cup {folder}),
                  LAMBDA u : IF u.raised THEN u
                             ELSE ClearAndPersistAll(u, u.ent[folder].items)))
MoveRecurseUpdateAll(s, q, onStack) ==
    IF q = <<>> THEN s
    ELSE MoveRecurseUpdateAll(MoveRecurseUpdate(s, Head(q), onStack), Tail(q), onStack)

-----------------------------------------------------------------------------
(* Handlers.  Each takes the state before the call and the handler's inputs *)
(* and returns the state when the handler returns or raises.                *)

\* The branch of on_treeWidget_itemChanged taken for a name that is not empty.
RenameAccepted(s0, newText) ==
    Do(s0, LAMBDA s :
        SortItems(ConfigAltered(MonitorUnsuspend(Persist(
            [Call(MonitorSuspend(s), "set_item_title", s.loaded) EXCEPT
                !.ent[s.loaded].title = newText],
            s.loaded)))))

\* The other branch, item.update(): the label shows the entity's name again.
RenameRejected(s0, item) ==
    Do(s0, LAMBDA s :
        [Call(s, "item.update", None) EXCEPT
            !.node[item].text = s.ent[ExtractData(s, item)].title])

\* on_treeWidget_itemChanged without the test for an empty name.
ValidName_Any(newText) == TRUE

\* ui_common.validate(not EMPTY_FIELD_REGEX.match(newText), ...)
ValidName(newText) == newText # ""

\* on_treeWidget_itemChanged(item, 0), after the user typed newText into item
on_treeWidget_itemChanged(s0, item, newText) ==
    With([s0 EXCEPT !.node[item].text = newText], LAMBDA edited :
        IF ValidName(newText) THEN RenameAccepted(edited, newText)
        ELSE RenameRejected(edited, item))

\* The branch of on_new_topfolder for a directory chosen by the user.
CreateElsewhere(s0) ==
    Do(s0, LAMBDA s :
    With(NextEnt(s), LAMBDA folder :
    With(NodeFor(s, folder), LAMBDA new_item :
        ConfigAltered(RootAppend(AddTopLevelItem(
            NewItem(Construct(s, folder, FolderObject("A", TRUE)), new_item, None, folder),
            new_item), folder)))))

\* on_new_topfolder; result is the answer to "Create folder in the default
\* location?", chosen whether the directory dialog returned a directory
on_new_topfolder(s0, result, chosen) ==
    With(MonitorSuspend(s0), LAMBDA s :
        IF result = "Yes" THEN CreateFolder(s, None)
        ELSE IF result = "No"
        THEN MonitorUnsuspend(IF chosen THEN CreateElsewhere(s) ELSE s)
        ELSE MonitorUnsuspend(s))

\* on_new_folder
on_new_folder(s0, ord) == CreateFolder(s0, ord[1])

\* on_new_phrase / on_new_script without parent.add_item(phrase).
on_new_leaf_NotAdded(s0, ord, kind) ==
    With(MonitorSuspend(s0), LAMBDA s :
    With(ord[1], LAMBDA parent_item :
    With(NextEnt(s), LAMBDA leaf :
    With(NodeFor(s, leaf), LAMBDA new_item :
        OnRename(ItemSelectionChanged(SetItemSelected(
            SetCurrentItem(SortItems(MonitorUnsuspend(Persist(
                NewItem(Construct(s, leaf,
                                  LeafObject(kind, IF kind = "Phrase"
                                                   THEN "New Phrase"
                                                   ELSE "New Script")),
                        new_item, parent_item, leaf),
                leaf))), new_item),
            parent_item, FALSE)))))))

\* on_new_phrase / on_new_script
on_new_leaf(s0, ord, kind) ==
    With(MonitorSuspend(s0), LAMBDA s :
    With(ord[1], LAMBDA parent_item :
    With(NextEnt(s), LAMBDA leaf :
    With(NodeFor(s, leaf), LAMBDA new_item :
        OnRename(ItemSelectionChanged(SetItemSelected(
            SetCurrentItem(SortItems(MonitorUnsuspend(Persist(
                AddItem(NewItem(Construct(s, leaf,
                                          LeafObject(kind, IF kind = "Phrase"
                                                           THEN "New Phrase"
                                                           ELSE "New Script")),
                                new_item, parent_item, leaf),
                        ExtractData(s, parent_item), leaf),
                leaf))), new_item),
            parent_item, FALSE)))))))

\* One round of the loop of on_copy.
CopyOne(s0, source, keepModes) ==
    Do(s0, LAMBDA s :
    With(NextEnt(s), LAMBDA new_obj :
    With(CopyFrom(Construct(s, new_obj,
                            LeafObject(IF s.ent[source].kind = "Phrase"
                                       THEN "Phrase" ELSE "Script", "")),
                  new_obj, source, keepModes),
         LAMBDA c : IF c.raised THEN c ELSE [c EXCEPT !.clip = Append(@, new_obj)])))

RECURSIVE CopyAll(_, _, _)
CopyAll(s, source_objects, keepModes) ==
    IF source_objects = <<>> THEN s
    ELSE CopyAll(CopyOne(s, Head(source_objects), keepModes), Tail(source_objects),
                 keepModes)

\* on_copy
on_copy(s0, ord, keepModes) == CopyAll(s0, GetSelection(s0, ord), keepModes)

\* The statements of on_clone up to and including parent.add_item(new_obj).
CloneAttach(s0, source_object, parent_item, new_obj, new_item, keepModes) ==
    Do(s0, LAMBDA s :
        AddItem(NewItem(CopyFrom(Construct(s, new_obj,
                                           LeafObject(s.ent[source_object].kind, "")),
                                 new_obj, source_object, keepModes),
                        new_item, parent_item, new_obj),
                ExtractData(s, parent_item), new_obj))

\* The statements of on_clone from monitor.suspend() to monitor.unsuspend().
ClonePersist(s0, new_obj) == MonitorUnsuspend(Persist(MonitorSuspend(s0), new_obj))

\* on_clone
on_clone(s0, ord, keepModes) ==
    With(s0, LAMBDA s :
    With(GetSelection(s, ord)[1], LAMBDA source_object :
    With(s.node[ord[1]].parent, LAMBDA parent_item :
    With(NextEnt(s), LAMBDA new_obj :
    With(NodeFor(s, new_obj), LAMBDA new_item :
        ConfigAltered(ItemSelectionChanged(SetItemSelected(
            SetCurrentItem(SortItems(
                ClonePersist(CloneAttach(s, source_object, parent_item, new_obj, new_item,
                                         keepModes),
                             new_obj)), new_item),
            parent_item, FALSE))))))))

\* on_cut
on_cut(s0, ord) ==
    With(s0, LAMBDA s :
        ConfigAltered(MonitorUnsuspend(
            RemoveItems(MonitorSuspend([s EXCEPT !.clip = GetSelection(s, ord)]),
                        TopLevelItems(s, ord)))))

\* WidgetItemFactory.processFolder(parent_item, parent_folder): a node for
\* every folder and leaf below parent_folder.
RECURSIVE ProcessFolder(_, _, _), ProcessFolders(_, _, _), ProcessLeaves(_, _, _)
ProcessFolder(s0, parent_item, parent_folder) ==
    Do(s0, LAMBDA s :
        ProcessLeaves(ProcessFolders(s, parent_item, s.ent[parent_folder].folders),
                      parent_item, s.ent[parent_folder].items))
ProcessFolders(s0, parent_item, q) ==
    IF q = <<>> THEN s0
    ELSE Do(s0, LAMBDA s :
         With(NodeFor(s, Head(q)), LAMBDA item :
             ProcessFolders(ProcessFolder(NewItem(s, item, parent_item, Head(q)),
                                          item, Head(q)),
                            parent_item, Tail(q))))
ProcessLeaves(s0, parent_item, q) ==
    IF q = <<>> THEN s0
    ELSE Do(s0, LAMBDA s :
             ProcessLeaves(NewItem(s, NodeFor(s, Head(q)), parent_item, Head(q)),
                           parent_item, Tail(q)))

\* The loop body of on_paste without item.persist().
PasteOne_NoPersist(s0, item, parent_item, new_item) ==
    Do(s0, LAMBDA s :
    With(ExtractData(s, parent_item), LAMBDA parent :
        IF IsFolder(s, item)
        THEN AddFolder(ProcessFolder(NewItem(s, new_item, parent_item, item),
                                     new_item, item),
                       parent, item)
        ELSE AddItem(NewItem(s, new_item, parent_item, item), parent, item)))

\* One round of the loop of on_paste, for the clipboard entry item.
PasteOne(s0, item, parent_item, new_item) ==
    Do(s0, LAMBDA s :
    With(ExtractData(s, parent_item), LAMBDA parent :
        Persist(IF IsFolder(s, item)
                THEN AddFolder(ProcessFolder(NewItem(s, new_item, parent_item, item),
                                             new_item, item),
                               parent, item)
                ELSE AddItem(NewItem(s, new_item, parent_item, item), parent, item),
                item)))

\* The loop of on_paste; returns the state and new_items.
RECURSIVE PasteAll(_, _, _, _)
PasteAll(s0, q, parent_item, new_items) ==
    With(s0, LAMBDA s :
        IF s.raised \/ q = <<>> THEN [state |-> s, new_items |-> new_items]
        ELSE With(NodeFor(s, Head(q)), LAMBDA new_item :
                 PasteAll(PasteOne(s, Head(q), parent_item, new_item), Tail(q),
                          parent_item, Append(new_items, new_item))))

RECURSIVE SelectAll(_, _)
SelectAll(s, q) ==
    IF q = <<>> THEN s ELSE SelectAll(SetItemSelected(s, Head(q), TRUE), Tail(q))

\* The statements of on_paste after its loop.
PasteFinish(s0, new_items) ==
    Do(SortItems(s0), LAMBDA s :
        IF new_items = <<>> THEN Raise(s, "IndexError")
        ELSE ConfigAltered(MonitorUnsuspend(SelectAll(
                 With(ItemSelectionChanged(SetCurrentItem(s, new_items[Len(new_items)])),
                      LAMBDA u : IF u.raised THEN u ELSE [u EXCEPT !.clip = <<>>]),
                 new_items))))

\* on_paste
on_paste(s0, ord) ==
    With(s0, LAMBDA s :
    With(PasteAll(MonitorSuspend(s), s.clip, ord[1], <<>>), LAMBDA loop :
        PasteFinish(loop.state, loop.new_items)))

\* on_delete going on whatever the answer.
DeleteConfirmed_Always(result) == TRUE

\* Whether on_delete goes on after the confirmation question.
DeleteConfirmed(result) == result = "Yes"

\* The items on_delete removes.
DeletedItems(s, widget_items) == widget_items

\* on_delete
on_delete(s0, ord, result) ==
    With(s0, LAMBDA s :
        IF DeleteConfirmed(result)
        THEN ConfigAltered(MonitorUnsuspend(
                 RemoveItems(MonitorSuspend(s), DeletedItems(s, ord))))
        ELSE MonitorUnsuspend(MonitorSuspend(s)))

\* on_save, when the page's validate() passes; hotkey is the HOTKEY mode
\* as set on the page, which the page's save() stores in the entity
SaveValid(s0, ord, hotkey) ==
    With(MonitorSuspend(s0), LAMBDA s :
    With([Persist([s EXCEPT !.ent[s.loaded].hotkey = hotkey], s.loaded)
             EXCEPT !.dirty = FALSE], LAMBDA saved :
        IF ord = <<>> THEN Raise(saved, "IndexError")
        ELSE MonitorUnsuspend(SortItems(
                 [saved EXCEPT !.node[ord[1]].text =
                                   saved.ent[ExtractData(saved, ord[1])].title]))))

\* on_save
on_save(s0, ord, valid, hotkey) == IF valid THEN SaveValid(s0, ord, hotkey) ELSE s0

\* The loop body of move_items without target.addChild(source).
MoveOne_NoAddChild(s0, source, target) ==
    Do(RemoveItem(s0, source), LAMBDA s :
    With(ExtractData(s, target), LAMBDA target_model_item :
    With(ExtractData(s, source), LAMBDA source_model_item :
        IF IsFolder(s, source_model_item)
        THEN MoveRecurseUpdate(AddFolder(s, target_model_item, source_model_item),
                               source_model_item, {})
        ELSE Persist(ClearPath(AddItem(s, target_model_item, source_model_item),
                               source_model_item), source_model_item))))

\* One round of the loop of move_items.
MoveOne(s0, source, target) ==
    Do(RemoveItem(s0, source), LAMBDA s :
    With(ExtractData(s, target), LAMBDA target_model_item :
    With(ExtractData(s, source), LAMBDA source_model_item :
        AddChild(IF IsFolder(s, source_model_item)
                 THEN MoveRecurseUpdate(AddFolder(s, target_model_item, source_model_item),
                                        source_model_item, {})
                 ELSE Persist(ClearPath(AddItem(s, target_model_item, source_model_item),
                                        source_model_item), source_model_item),
                 target, source))))

RECURSIVE MoveAll(_, _, _)
MoveAll(s, q, target) ==
    IF q = <<>> THEN s ELSE MoveAll(MoveOne(s, Head(q), target), Tail(q), target)

\* move_items
move_items(s0, sourceItems, target) ==
    With(s0, LAMBDA s :
        ConfigAltered(SortItems(MonitorUnsuspend(
            MoveAll(MonitorSuspend(s), TopLevelItems(s, sourceItems), target)))))

-----------------------------------------------------------------------------
(* The log list: ListWidgetHandler, on_clear_log, on_save_log *)

\* The thread that runs the event loop and owns the widgets, and the
\* threads that log.
MainThread == "main"
Threads == {"main", "worker1", "worker2"}

\* logging.INFO, logging.WARNING
Levels == <<20, 30>>

\* The level of the n-th record of a run; the runs differ in the level of
\* their first record.
LevelOf(phase, n) == Levels[((n + phase) % Len(Levels)) + 1]

\* The log list before the first record.  widget is listWidget; posted the
\* callbacks that exec_in_main has queued for the main thread; file the lines
\* of the saved log file; handled the messages added to the widget so far,
\* clearedAt how many of them had been added at the last clear, touched the
\* threads that have changed the widget, and offMain whether a thread other
\* than the main thread has logged.
LogStart(phase) ==
    [widget |-> <<>>, posted |-> <<>>, file |-> <<>>, emitted |-> 0, handled |-> <<>>,
     clearedAt |-> 0, touched |-> {}, offMain |-> FALSE, ops |-> 0, phase |-> phase]

\* item = QListWidgetItem(self.format(record)) with its icon; the format is
\* "%(message)s".
ListItem(record) ==
    [text |-> record.msg,
     icon |-> IF record.levelno > INFO THEN "dialog-warning" ELSE "dialog-information"]

\* _add_item without the eviction.
ListWidgetHandler_add_item_NoEvict(l0, item, thread) ==
    [l0 EXCEPT !.widget = Append(@, item),
               !.handled = Append(@, item.text),
               !.touched = @ \cup {thread}]

\* _add_item, run by thread: addItem, then takeItem(0) above the capacity.
ListWidgetHandler_add_item(l0, item, thread) ==
    With([l0 EXCEPT !.widget = Append(@, item),
                    !.handled = Append(@, item.text),
                    !.touched = @ \cup {thread}], LAMBDA l :
        IF Len(l.widget) > Capacity THEN [l EXCEPT !.widget = Tail(@)] ELSE l)

\* app.exec_in_main(self._add_item, item), called by thread: the callback is
\* posted to the event loop of the main thread.
exec_in_main(l, item, thread) == [l EXCEPT !.posted = Append(@, item)]

\* emit calling _add_item itself.
emit_Direct(l, record, thread) ==
    ListWidgetHandler_add_item(
        [l EXCEPT !.emitted = @ + 1, !.offMain = @ \/ thread # MainThread],
        ListItem(record), thread)

\* ListWidgetHandler.emit, called by thread
emit(l, record, thread) ==
    exec_in_main([l EXCEPT !.emitted = @ + 1, !.offMain = @ \/ thread # MainThread],
                 ListItem(record), thread)

\* The event loop of the main thread runs the callback posted first.
RunCallback(l) ==
    ListWidgetHandler_add_item([l EXCEPT !.posted = Tail(@)], Head(l.posted), MainThread)

\* on_clear_log
on_clear_log(l) ==
    [l EXCEPT !.widget = <<>>, !.clearedAt = Len(l.handled),
              !.touched = @ \cup {MainThread}, !.ops = @ + 1]

\* on_save_log with a file name chosen and the file written
on_save_log(l) ==
    [l EXCEPT !.file = [i \in 1..Len(l.widget) |-> l.widget[i].text], !.ops = @ + 1]

-----------------------------------------------------------------------------
(* The state machine *)

NoOp == [op |-> "init", answer |-> "", raised |-> FALSE]

\* The record of a handler call: the handler, the answer given to its
\* dialog (if any), and whether it raised.
Ran(s, op, answer) == [op |-> op, answer |-> answer, raised |-> s.raised]

Commit(s, l) ==
    /\ ent' = s.ent
    /\ node' = s.node
    /\ folders' = s.folders
    /\ top' = s.top
    /\ sel' = s.sel
    /\ clip' = s.clip
    /\ loaded' = s.loaded
    /\ dirty' = s.dirty
    /\ suspended' = s.suspended
    /\ trace' = s.trace
    /\ last' = l
    /\ steps' = steps + 1
    /\ log' = log

\* populate_tree on a configuration without folders.
InitWidget ==
    /\ ent = [e \in Ents |-> FreeEnt]
    /\ node = [n \in Nodes |-> FreeNode]
    /\ folders = <<>>
    /\ top = <<>>
    /\ sel = {}
    /\ clip = <<>>
    /\ loaded = None
    /\ dirty = FALSE
    /\ suspended = FALSE
    /\ trace = <<>>
    /\ last = NoOp
    /\ steps = 0

Init == InitWidget /\ log = LogStart(0)

\* The state a handler starts from.
Start == Reclaim(Cur)

CanCreate(s) == FreeEnts(s) # {} /\ FreeNodes(s) # {}

\* Nodes that pasting the entities of q creates.
RECURSIVE NodesNeeded(_, _)
NodesNeeded(s, q) ==
    IF q = <<>> THEN 0 ELSE Cardinality(Subtree(s, Head(q))) + NodesNeeded(s, Tail(q))

\* The user clicks in the tree.
UserSelects ==
    /\ steps < MaxOps
    /\ \E s0 \in {Start} :
           \E S \in SUBSET InTree(s0) :
               /\ S # sel
               /\ \E s \in {SetSelection(s0, S)} : Commit(s, Ran(s, "select", ""))

\* The user edits the label of the first selected node.
Rename ==
    /\ steps < MaxOps
    /\ sel # {}
    /\ loaded # None
    /\ \E s0 \in {Start} :
           \E ord \in Orders(sel), newText \in {"", "A"} :
               /\ newText # node[ord[1]].text
               /\ \E s \in {on_treeWidget_itemChanged(s0, ord[1], newText)} :
                      Commit(s, Ran(s, "rename", newText))

NewTopFolder ==
    /\ steps < MaxOps
    /\ \E s0 \in {Start} :
           \E result \in {"Yes", "No", "Cancel"}, chosen \in BOOLEAN :
               /\ chosen => result = "No"
               /\ (result = "Yes" \/ chosen) => CanCreate(s0)
               /\ \E s \in {on_new_topfolder(s0, result, chosen)} :
                      Commit(s, Ran(s, "new_topfolder",
                                    IF result = "No" /\ chosen THEN "Elsewhere" ELSE result))

NewSubFolder ==
    /\ steps < MaxOps
    /\ sel # {}
    /\ \E s0 \in {Start} :
           /\ CanCreate(s0)
           /\ \E ord \in Orders(sel) :
                 /\ IsFolder(s0, node[ord[1]].ent)
                 /\ \E s \in {on_new_folder(s0, ord)} :
                        Commit(s, Ran(s, "new_folder", ""))

NewPhraseOrScript ==
    /\ steps < MaxOps
    /\ sel # {}
    /\ \E s0 \in {Start} :
           /\ CanCreate(s0)
           /\ \E ord \in Orders(sel), kind \in {"Phrase", "Script"} :
                 /\ IsFolder(s0, node[ord[1]].ent)
                 /\ \E s \in {on_new_leaf(s0, ord, kind)} :
                        Commit(s, Ran(s, "new_leaf", kind))

Copy ==
    /\ steps < MaxOps
    /\ sel # {}
    /\ \E s0 \in {Start} :
           \E ord \in Orders(sel), keepModes \in BOOLEAN :
               /\ Len(GetSelection(s0, ord)) <= Cardinality(FreeEnts(s0))
               /\ \E s \in {on_copy(s0, ord, keepModes)} :
                      Commit(s, Ran(s, "copy", ""))

Clone ==
    /\ steps < MaxOps
    /\ Cardinality(sel) = 1
    /\ \E s0 \in {Start} :
           /\ CanCreate(s0)
           /\ \E ord \in Orders(sel), keepModes \in BOOLEAN :
                 /\ IsLeaf(s0, node[ord[1]].ent)
                 /\ \E s \in {on_clone(s0, ord, keepModes)} :
                        Commit(s, Ran(s, "clone", ""))

Cut ==
    /\ steps < MaxOps
    /\ sel # {}
    /\ \E s0 \in {Start} :
           \E ord \in Orders(sel) :
               \E s \in {on_cut(s0, ord)} :
                   Commit(s, Ran(s, "cut", ""))

Paste ==
    /\ steps < MaxOps
    /\ sel # {}
    /\ \E s0 \in {Start} :
           /\ NodesNeeded(s0, clip) <= Cardinality(FreeNodes(s0))
           /\ \E ord \in Orders(sel) :
                 /\ IsFolder(s0, node[ord[1]].ent)
                 /\ \E s \in {on_paste(s0, ord)} :
                        Commit(s, Ran(s, "paste", ""))

Delete ==
    /\ steps < MaxOps
    /\ \E s0 \in {Start} :
           \E ord \in Orders(sel), result \in {"Yes", "No"} :
               \E s \in {on_delete(s0, ord, result)} :
                   Commit(s, Ran(s, "delete", result))

Save ==
    /\ steps < MaxOps
    /\ loaded # None
    /\ \E s0 \in {Start} :
           \E ord \in Orders(sel), valid \in BOOLEAN, hotkey \in BOOLEAN :
               /\ ~valid => ~hotkey
               /\ \E s \in {on_save(s0, ord, valid, hotkey)} :
                      Commit(s, Ran(s, "save", IF valid THEN "valid" ELSE "invalid"))

\* The user changes something on the page, which calls set_dirty(True).
EditPage ==
    /\ steps < MaxOps
    /\ loaded # None
    /\ ~dirty
    /\ \E s \in {[Start EXCEPT !.dirty = TRUE]} : Commit(s, Ran(s, "edit", ""))

\* on_reset
Reset ==
    /\ steps < MaxOps
    /\ loaded # None
    /\ dirty
    /\ \E s \in {[Start EXCEPT !.dirty = FALSE]} : Commit(s, Ran(s, "reset", ""))

\* The user drags the selected nodes onto a folder node.
Move ==
    /\ steps < MaxOps
    /\ sel # {}
    /\ \E s0 \in {Start} :
           \E ord \in Orders(sel), target \in InTree(s0) :
               /\ IsFolder(s0, node[target].ent)
               /\ \E s \in {move_items(s0, ord, target)} :
                      Commit(s, Ran(s, "move", ""))

Next ==
    \/ UserSelects
    \/ Rename
    \/ NewTopFolder
    \/ NewSubFolder
    \/ NewPhraseOrScript
    \/ Copy
    \/ Clone
    \/ Cut
    \/ Paste
    \/ Delete
    \/ Save
    \/ EditPage
    \/ Reset
    \/ Move

Spec == Init /\ [][Next]_vars

-----------------------------------------------------------------------------
(* Starting from a stored configuration *)

\* Entity i of a stored configuration of k entities, each the only child of
\* the one before: Folders down to the last one, which is of kind lastKind.
ChainEntity(k, i, lastKind, hotkey) ==
    [kind |-> IF i = k THEN lastKind ELSE "Folder",
     title |-> "A",
     parent |-> i - 1,
     folders |-> IF i + 1 < k \/ (i + 1 = k /\ lastKind = "Folder") THEN <<i + 1>> ELSE <<>>,
     items |-> IF i + 1 = k /\ lastKind # "Folder" THEN <<i + 1>> ELSE <<>>,
     path |-> TRUE,
     hotkey |-> i = k /\ hotkey]

\* The widget before populate_tree, with the configuration read from disk.
StoredConfig(k, lastKind, hotkey) ==
    [ent |-> [e \in Ents |-> IF e <= k THEN ChainEntity(k, e, lastKind, hotkey)
                             ELSE FreeEnt],
     node |-> [n \in Nodes |-> FreeNode],
     folders |-> IF k = 0 THEN <<>> ELSE <<1>>,
     top |-> <<>>, sel |-> {}, clip |-> <<>>, loaded |-> None, dirty |-> FALSE,
     suspended |-> FALSE, trace |-> <<>>, raised |-> FALSE]

\* WidgetItemFactory(config.folders).get_root_folder_list() and the loop of
\* populate_tree: a top-level node for every root folder, with the nodes of
\* everything below it.
RECURSIVE RootItems(_, _)
RootItems(s0, q) ==
    IF q = <<>> THEN s0
    ELSE Do(s0, LAMBDA s :
         With(NodeFor(s, Head(q)), LAMBDA item :
             RootItems(AddTopLevelItem(ProcessFolder(NewItem(s, item, None, Head(q)),
                                                     item, Head(q)),
                                       item),
                       Tail(q))))

\* populate_tree
populate_tree(s0) ==
    With(SortItems(RootItems(s0, s0.folders)), LAMBDA s :
        ItemSelectionChanged(SetCurrentItem(s, IF s.top = <<>> THEN None ELSE s.top[1])))

\* The state after populate_tree on a stored configuration.
InitLoaded ==
    \E k \in 0..MaxStored, lastKind \in {"Folder", "Phrase", "Script"}, hotkey \in BOOLEAN :
        /\ k <= 1 => (lastKind = "Folder" /\ ~hotkey)
        /\ \E s \in {populate_tree(StoredConfig(k, lastKind, hotkey))} :
               /\ ent = s.ent
               /\ node = s.node
               /\ folders = s.folders
               /\ top = s.top
               /\ sel = s.sel
               /\ clip = s.clip
               /\ loaded = s.loaded
               /\ dirty = s.dirty
               /\ suspended = s.suspended
               /\ trace = <<>>
               /\ last = NoOp
               /\ steps = StoredSteps
               /\ log = LogStart(0)

SpecLoaded == InitLoaded /\ [][Next]_vars

-----------------------------------------------------------------------------
(* The log list as a state machine *)

InitLog == InitWidget /\ \E phase \in 0..(Len(Levels) - 1) : log = LogStart(phase)

\* Some thread logs a record.
Emit ==
    /\ log.emitted < MaxRecords
    /\ Len(log.posted) < MaxPosted
    /\ \E thread \in Threads :
           log' = emit(log, [msg |-> log.emitted + 1,
                             levelno |-> LevelOf(log.phase, log.emitted + 1)], thread)
    /\ UNCHANGED widgetVars

\* The main thread runs a posted callback.
AddPosted ==
    /\ log.posted # <<>>
    /\ log' = RunCallback(log)
    /\ UNCHANGED widgetVars

\* The user clears the log.
ClearLog ==
    /\ log.ops < MaxLogOps
    /\ log' = on_clear_log(log)
    /\ UNCHANGED widgetVars

\* The user saves the log.
SaveLog ==
    /\ log.ops < MaxLogOps
    /\ log' = on_save_log(log)
    /\ UNCHANGED widgetVars

NextLog ==
    \/ Emit
    \/ AddPosted
    \/ ClearLog
    \/ SaveLog

SpecLog == InitLog /\ [][NextLog]_vars

-----------------------------------------------------------------------------
(* Properties *)

\* The state after the step, as a record like Cur.
Post == [ent |-> ent', node |-> node', folders |-> folders', top |-> top', sel |-> sel',
         clip |-> clip', loaded |-> loaded', dirty |-> dirty', suspended |-> suspended',
         trace |-> trace', raised |-> last'.raised]

\* The handlers that change the structure of the configuration.
StructuralOps == {"new_topfolder", "new_folder", "new_leaf", "rename", "clone", "cut",
                  "paste", "delete", "move"}

\* Collaborator calls that change the entity tree or write an entity.
MutationCalls == {"add_folder", "add_item", "remove_folder", "remove_item",
                  "folders.append", "folders.remove", "set_item_title", "remove_data",
                  "path=None", "persist"}

Called(q, name, e) == <<name, e>> \in Range(q)

\* Whether call i of q is made between a suspend of q and the unsuspend
\* that follows it.
InsideBracket(q, i) ==
    /\ \E j \in 1..(i-1) : /\ q[j][1] = "suspend"
                           /\ \A k \in (j+1)..(i-1) : q[k][1] # "unsuspend"
    /\ \E j \in (i+1)..Len(q) : q[j][1] = "unsuspend"

\* How often e is listed: in the root folder list and in the child lists of
\* the entities 1..p of state s.
RECURSIVE ListingsUpTo(_, _, _)
ListingsUpTo(s, e, p) ==
    IF p = 0 THEN Count(s.folders, e)
    ELSE Count(s.ent[p].folders, e) + Count(s.ent[p].items, e) + ListingsUpTo(s, e, p - 1)

Listings(s, e) == ListingsUpTo(s, e, MaxEntities)

\* Entities that a node of the tree shows.
Shown(s) == {s.node[n].ent : n \in InTree(s)}

\* Whether a is above e along the parent pointers, at most k levels up.
RECURSIVE IsAbove(_, _, _, _)
IsAbove(s, a, e, k) ==
    /\ k > 0
    /\ s.ent[e].parent # None
    /\ (s.ent[e].parent = a \/ IsAbove(s, a, s.ent[e].parent, k - 1))

\* C1: in every structural operation that returns, every mutation of the
\* entity tree and every persist call is made after a monitor.suspend() of
\* that operation and before the monitor.unsuspend() that follows.
C1_MutationsInsideBracket ==
    (last.op \in StructuralOps /\ ~last.raised) =>
        \A i \in 1..Len(trace) :
            trace[i][1] \in MutationCalls => InsideBracket(trace, i)

\* C2: when a handler that suspends the monitor is over, it has called
\* monitor.unsuspend() as often as monitor.suspend(), and the monitor is
\* not left suspended.
C2_BracketBalanced ==
    last.op \in {"new_topfolder", "delete", "rename", "cut", "paste", "move", "save"} =>
        /\ Count(trace, <<"unsuspend", None>>) = Count(trace, <<"suspend", None>>)
        /\ ~suspended

\* C3: every leaf of the configuration (listed below the root folder list,
\* or shown by a node of the tree) has a parent pointer to a Folder that
\* lists it among its items, and every item such a Folder lists points
\* back to it.
C3_LeafParentListsIt ==
    /\ \A x \in Attached(Cur) \cup Shown(Cur) :
           IsLeaf(Cur, x) => /\ IsFolder(Cur, ent[x].parent)
                             /\ x \in Range(ent[ent[x].parent].items)
    /\ \A f \in Attached(Cur) \cup Shown(Cur) :
           \A x \in Range(ent[f].items) : ent[x].parent = f

\* C3 witness: a confirmed delete has run and a leaf is still in the tree.
C3_Witness ==
    /\ last.op = "delete" /\ last.answer = "Yes" /\ ~last.raised
    /\ \E i \in 1..Len(trace) : trace[i][1] = "remove_data"
    /\ \E x \in Attached(Cur) : IsLeaf(Cur, x)

\* C4: no entity is listed more than once, counting the root folder list
\* and the folders and items lists of every Folder.
C4_ExclusiveOwnership == \A e \in Ents : Listings(Cur, e) <= 1

\* C4 witness: a paste or a move has put an entity into a Folder's list.
C4_Witness ==
    /\ last.op \in {"paste", "move"} /\ ~last.raised
    /\ \E e \in Ents : /\ Called(trace, "add_item", e) \/ Called(trace, "add_folder", e)
                       /\ Listings(Cur, e) = 1

\* C5: after an operation that returned, every entity listed below the
\* root folder list has exactly one node in the tree, every node shows such
\* an entity, the parent node of a node shows the parent of the node's
\* entity, and the top-level nodes show exactly the root folder list.
C5_TreeMirrorsModel ==
    ~last.raised =>
        /\ \A e \in Attached(Cur) :
               Cardinality({n \in InTree(Cur) : node[n].ent = e}) = 1
        /\ \A n \in InTree(Cur) :
               /\ node[n].ent \in Attached(Cur)
               /\ IF node[n].parent = None
                  THEN n \in Range(top) /\ ent[node[n].ent].parent = None
                  ELSE ent[node[n].ent].parent = node[node[n].parent].ent
        /\ {node[n].ent : n \in Range(top)} = Range(folders)

\* C5 witness: a move has put a node below another node.
C5_Witness ==
    /\ last.op = "move" /\ ~last.raised
    /\ \E n \in InTree(Cur) :
           /\ node[n].parent # None
           /\ Called(trace, "add_item", node[n].ent) \/ Called(trace, "add_folder", node[n].ent)

\* C6: a rename to the empty name changes no entity, calls neither
\* persist nor config_altered, does not touch the monitor, and changes
\* nothing in the tree but the edited label, which shows the entity's title
\* again.
C6_EmptyRenameIsLocal ==
    [][(last'.op = "rename" /\ last'.answer = "") =>
          /\ \A e \in LiveEnts(Cur) : ent'[e] = ent[e]
          /\ folders' = folders /\ clip' = clip /\ top' = top
          /\ suspended' = suspended
          /\ \A i \in 1..Len(trace') :
                 trace'[i][1] \notin MutationCalls \cup {"suspend", "unsuspend",
                                                         "config_altered"}
          /\ \E n \in sel :
                 /\ node'[n] = [node[n] EXCEPT !.text = ent[node[n].ent].title]
                 /\ \A m \in InTree(Cur) \ {n} : node'[m] = node[m]]_vars

\* C6 witness: the user has typed an empty name.
C6_Witness ==
    /\ last.op = "rename" /\ last.answer = "" /\ ~last.raised
    /\ Called(trace, "item.update", None)

\* C7: a confirmed delete removes no entity together with an entity above
\* it, and reports no entity twice to hotkey_removed.
C7_DeleteFiltersSelection ==
    (last.op = "delete" /\ last.answer = "Yes") =>
        /\ \A a, e \in Ents :
               (Called(trace, "remove_data", a) /\ Called(trace, "remove_data", e))
                   => ~IsAbove(Cur, a, e, MaxEntities)
        /\ \A e \in Ents : Count(trace, <<"hotkey_removed", e>>) <= 1

\* The confirmed delete of the Folder f, the entity of the only selected node.
DeletesFolder(f) ==
    /\ last'.op = "delete" /\ last'.answer = "Yes"
    /\ IsFolder(Cur, f)
    /\ \E n \in sel : sel = {n} /\ node[n].ent = f

\* hotkey_removed is called for exactly the entities of f's subtree that
\* have HOTKEY in their modes.
HotkeysUnregistered(f) ==
    \A e \in Ents : Called(trace', "hotkey_removed", e)
                        <=> (e \in Subtree(Cur, f) /\ ent[e].hotkey)

\* f is in no list any more.
Unlisted(f) == Listings(Post, f) = 0

\* C8 as stated: deleting a Folder calls hotkey_removed for the Folder and
\* its descendants with HOTKEY and for nothing else, takes the Folder out of
\* the list that held it, and takes its leaves out of its item list.
C8_DeleteFolderDetachesLeaves ==
    [][\A f \in Ents : DeletesFolder(f) =>
           /\ HotkeysUnregistered(f)
           /\ Unlisted(f)
           /\ \A x \in Range(ent[f].items) : x \notin Range(ent'[f].items)]_vars

\* C8: deleting a Folder calls hotkey_removed for the Folder and its
\* descendants with HOTKEY and for nothing else, and takes the Folder out of
\* the list that held it; its leaves stay in its item list, with their
\* parent pointers, and are no longer below the root folder list.
C8_DeleteFolder ==
    [][\A f \in Ents : DeletesFolder(f) =>
           /\ HotkeysUnregistered(f)
           /\ Unlisted(f)
           /\ ent'[f].items = ent[f].items
           /\ \A x \in Range(ent[f].items) : /\ ent'[x].parent = f
                                             /\ x \notin Attached(Post)]_vars

\* C8 witness: a Folder was deleted and hotkey_removed was called for an
\* entity below it.
C8_Witness ==
    /\ last.op = "delete" /\ last.answer = "Yes" /\ ~last.raised
    /\ \E f, e \in Ents : /\ IsFolder(Cur, f)
                          /\ Called(trace, "remove_data", f)
                          /\ IsAbove(Cur, f, e, MaxEntities)
                          /\ Called(trace, "hotkey_removed", e)

\* C9: a declined delete changes no entity, no node, no list, neither the
\* selection nor the clipboard, calls neither hotkey_removed nor
\* config_altered, and ends with the monitor resumed.
C9_DeclinedDeleteIsNoOp ==
    [][(last'.op = "delete" /\ last'.answer = "No") =>
          /\ \A e \in LiveEnts(Cur) : ent'[e] = ent[e]
          /\ \A n \in InTree(Cur) : node'[n] = node[n]
          /\ folders' = folders /\ top' = top /\ sel' = sel /\ clip' = clip
          /\ \A i \in 1..Len(trace') :
                 trace'[i][1] \notin MutationCalls \cup {"hotkey_removed", "config_altered"}
          /\ trace'[Len(trace')] = <<"unsuspend", None>>
          /\ ~suspended']_vars

\* C9 witness: the user declined to delete the selected nodes.
C9_Witness ==
    /\ last.op = "delete" /\ last.answer = "No"
    /\ sel # {}
    /\ Called(trace, "unsuspend", None)

\* After a cut, the entities of the clipboard have no path and are in no
\* list.
CutUnsetsPath ==
    (last'.op = "cut" /\ ~last'.raised) =>
        \A e \in Range(clip') : ~ent'[e].path /\ Listings(Post, e) = 0

\* After a paste, every entity of the clipboard is listed once, by the
\* Folder pasted into, which is its parent, and has the path that the
\* persist call of the paste gave it.
PasteSetsPath ==
    (last'.op = "paste" /\ ~last'.raised) =>
        \E t \in Ents :
            /\ IsFolder(Post, t)
            /\ clip # <<>>
            /\ \A e \in Range(clip) :
                   /\ ent'[e].parent = t
                   /\ e \in Range(ent'[t].folders) \cup Range(ent'[t].items)
                   /\ Listings(Post, e) = 1
                   /\ Called(trace', "persist", e)
                   /\ ent'[e].path

\* No other handler gives an entity of the clipboard a path, unless it
\* writes the entity of the page that is open.
OnlyPasteSetsPath ==
    last'.op # "paste" =>
        \A e \in (Range(clip) \cap Range(clip')) \ {loaded} :
            ~ent[e].path => ~ent'[e].path

EntitiesOf(s, q) == {ExtractData(s, q[i]) : i \in 1..Len(q)}

\* The entities that the node-level filter of on_cut picks.
CutEntities == {node[n].ent : n \in {m \in sel : node[m].parent \notin sel}}

\* C11: the filter of __getSelection on entities and the filter of on_cut on
\* nodes pick the same set; after a cut the clipboard holds exactly the
\* entities of the selected nodes whose parent node is not selected, each
\* once and by identity, those have left the list that held them, and every
\* selected entity below a cut Folder is still listed, by the same parent,
\* inside that Folder's subtree.
C11_CutStagesTopLevel ==
    [][/\ \A ord \in Orders(sel) :
              Range(GetSelection(Cur, ord)) = EntitiesOf(Cur, TopLevelItems(Cur, ord))
       /\ (last'.op = "cut" /\ ~last'.raised) =>
              /\ Range(clip') = CutEntities
              /\ Len(clip') = Cardinality(CutEntities)
              /\ \A e \in CutEntities :
                     /\ Listings(Post, e) = 0
                     /\ ent'[e].kind = ent[e].kind /\ ent'[e].title = ent[e].title
              /\ \A c \in CutEntities :
                     \A x \in (Subtree(Cur, c) \ {c}) \cap {node[n].ent : n \in sel} :
                         /\ Listings(Post, x) = 1
                         /\ ent'[x].parent = ent[x].parent
                         /\ x \in Subtree(Post, c)]_vars

\* C12: a paste that returns has put every entity of the clipboard into the
\* list of the Folder pasted into, with that Folder as its parent, has
\* called persist for every such entity and for every leaf below a pasted
\* Folder, which gives each of them its path, and has emptied the clipboard.
C12_PastePersistsSubtree ==
    [][(last'.op = "paste" /\ ~last'.raised) =>
          /\ clip' = <<>>
          /\ \E t \in Ents :
                 /\ IsFolder(Post, t)
                 /\ \A e \in Range(clip) :
                        /\ ent'[e].parent = t
                        /\ e \in Range(ent'[t].folders) \cup Range(ent'[t].items)
                        /\ Called(trace', "persist", e)
                        /\ \A x \in Subtree(Post, e) :
                               IsLeaf(Post, x) => /\ Called(trace', "persist", x)
                                                  /\ ent'[x].path]_vars

\* The entities that move_items moves: those of the selected nodes whose
\* parent node is not selected.
MovedEntities == {node[n].ent : n \in {m \in sel : node[m].parent \notin sel}}

\* How often persist is called for e in the calls q.
PersistCount(q, e) == Cardinality({i \in 1..Len(q) : q[i] = <<"persist", e>>})

\* Whether the path of e is cleared and e is persisted afterwards, before
\* the monitor is resumed.
ClearedThenPersisted(q, e) ==
    \E i, j, k \in 1..Len(q) :
        /\ i < j /\ j < k
        /\ q[i] = <<"path=None", e>>
        /\ q[j] = <<"persist", e>>
        /\ q[k][1] = "unsuspend"

\* C13: a move that returns has detached every moved entity from its old
\* list and attached it under the target; the path of the entity and of
\* every folder and leaf below it is cleared and then persisted before the
\* monitor is resumed, and every leaf that the move affects is persisted
\* exactly once.
C13_MoveClearsPath ==
    [][(last'.op = "move" /\ ~last'.raised) =>
          \E t \in Ents :
              \A e \in MovedEntities :
                  /\ ent'[e].parent = t
                  /\ Listings(Post, e) = 1
                  /\ e \in Range(ent'[t].folders) \cup Range(ent'[t].items)
                  /\ \A x \in Subtree(Post, e) :
                         /\ ClearedThenPersisted(trace', x)
                         /\ ent'[x].path
                         /\ IsLeaf(Post, x) => PersistCount(trace', x) = 1]_vars

\* The entities behind the selected nodes.
SelectedEntities == {node[n].ent : n \in sel}

\* Whether the members of r come in the order in which ord lists their nodes.
InSelectionOrder(r, ord) ==
    \A i, j \in 1..Len(r) :
        i < j => \E a, b \in 1..Len(ord) :
                     a < b /\ node[ord[a]].ent = r[i] /\ node[ord[b]].ent = r[j]

\* C14: whatever the order of the selection, __getSelection returns exactly
\* the selected entities whose parent is not selected (root folders, which
\* have no parent, among them), each once and in selection order, so that
\* no returned entity has its parent in the result and a selected direct
\* child of a selected Folder is not returned.
C14_SelectionQuery ==
    \A ord \in Orders(sel) :
        LET r == GetSelection(Cur, ord)
        IN  /\ Range(r) = {e \in SelectedEntities : ent[e].parent \notin SelectedEntities}
            /\ Len(r) = Cardinality(Range(r))
            /\ InSelectionOrder(r, ord)
            /\ \A e \in Range(r) : ent[e].parent \notin Range(r)
            /\ \A e \in SelectedEntities : ent[e].parent = None => e \in Range(r)

\* A Folder and one of its direct children are selected and the query
\* returns the Folder alone.
C14_Witness ==
    \E f, c \in sel :
        /\ sel = {f, c}
        /\ node[c].parent = f
        /\ ent[node[c].ent].parent = node[f].ent
        /\ \A ord \in Orders(sel) : GetSelection(Cur, ord) = <<node[f].ent>>

\* The entities that on_copy takes as sources, and the leaves among them.
CopySources == {e \in SelectedEntities : ent[e].parent \notin SelectedEntities}

CopiedLeaves(kind) == {e \in CopySources : ent[e].kind = kind}

\* The entries that the last handler call appended to the clipboard.
Appended == SubSeq(clip', Len(clip) + 1, Len(clip'))

\* C15: a copy returns without an error and appends to the clipboard one
\* new object without parent for every selected leaf, of the leaf's kind and
\* with its title, and nothing for a selected Folder; it leaves the entries
\* that the clipboard had, every entity of the configuration, its lists and
\* the tree as they were.
C15_CopyStagesLeaves ==
    [][last'.op = "copy" =>
          /\ ~last'.raised
          /\ Len(clip') >= Len(clip)
          /\ SubSeq(clip', 1, Len(clip)) = clip
          /\ Len(Appended) = Cardinality(Range(Appended))
          /\ \A k \in {"Phrase", "Script"} :
                 Cardinality({i \in 1..Len(Appended) : ent'[Appended[i]].kind = k})
                     = Cardinality(CopiedLeaves(k))
          /\ \A c \in Range(Appended) :
                 /\ c \notin LiveEnts(Cur)
                 /\ ent'[c].parent = None
                 /\ Listings(Post, c) = 0
                 /\ \E e \in CopiedLeaves(ent'[c].kind) : ent'[c].title = ent[e].title
          /\ \A e \in LiveEnts(Cur) : ent'[e] = ent[e]
          /\ \A n \in InTree(Cur) : node'[n] = node[n]
          /\ folders' = folders /\ top' = top]_vars

\* The entities that the last handler call constructed and kept.
Created == LiveEnts(Post) \ LiveEnts(Cur)

\* C16: a clone that returns has made one new leaf of the kind of the
\* selected leaf, listed once, in the item list of the source's parent, has
\* persisted it and left its node as the only selected one; the dirty flag
\* is what it was before the clone.
C16_CloneKeepsDirty ==
    [][(last'.op = "clone" /\ ~last'.raised) =>
          /\ \E src \in SelectedEntities, c \in Created :
                 /\ Created = {c}
                 /\ ent'[c].kind = ent[src].kind
                 /\ ent'[c].parent = ent[src].parent
                 /\ c \in Range(ent'[ent[src].parent].items)
                 /\ Listings(Post, c) = 1
                 /\ Called(trace', "persist", c) /\ ent'[c].path
                 /\ \E n \in InTree(Post) : node'[n].ent = c /\ sel' = {n}
          /\ dirty' = dirty]_vars

\* The messages added to the widget since the last clear.
AddedSinceClear == SubSeq(log.handled, log.clearedAt + 1, Len(log.handled))

\* The last k members of q.
LastOf(q, k) == SubSeq(q, Len(q) - k + 1, Len(q))

\* C17: whenever no _add_item is in progress, the widget holds at most
\* Capacity entries, and they are the last min(n, Capacity) of the n records
\* added since the last clear, in the order in which they were added,
\* whatever their levels; after Capacity + 1 records added to an empty
\* widget it holds the records 2 .. Capacity + 1.
C17_LogIsBoundedFifo ==
    /\ Len(log.widget) <= Capacity
    /\ [i \in 1..Len(log.widget) |-> log.widget[i].text]
           = LastOf(AddedSinceClear, Min(Len(AddedSinceClear), Capacity))
    /\ (log.clearedAt = 0 /\ Len(log.handled) = Capacity + 1) =>
           [i \in 1..Len(log.widget) |-> log.widget[i].text] = [i \in 1..Capacity |-> i + 1]

\* Capacity + 1 records of both kinds of level have been added to the empty
\* widget and the first of them is gone.
C17_Witness ==
    /\ log.clearedAt = 0
    /\ Len(log.handled) = Capacity + 1
    /\ Len(log.widget) = Capacity
    /\ log.widget[1].text = 2
    /\ \E i, j \in 1..Capacity : log.widget[i].icon # log.widget[j].icon

\* The messages of the entries of q.
Texts(q) == [i \in 1..Len(q) |-> q[i].text]

\* C18: no thread but the main thread ever changes the widget: an emit, on
\* whatever thread, leaves the widget as it is and posts one entry for the
\* record to the main thread; the records emitted so far are, in the order
\* of their emits and each once, those that the main thread has added to
\* the widget followed by those still posted; and the widget holds at most
\* Capacity entries after every step, with clears and saves in between.
C18_OnlyMainThreadMutates ==
    /\ [](/\ log.touched \subseteq {MainThread}
          /\ log.handled \o Texts(log.posted) = [i \in 1..log.emitted |-> i]
          /\ Len(log.widget) <= Capacity)
    /\ [][log'.emitted # log.emitted =>
              /\ log'.widget = log.widget
              /\ log'.handled = log.handled
              /\ Len(log'.posted) = Len(log.posted) + 1
              /\ SubSeq(log'.posted, 1, Len(log.posted)) = log.posted
              /\ log'.posted[Len(log'.posted)].text = log'.emitted]_vars

\* Records logged off the main thread among them, the widget is full, the
\* oldest record has been evicted, a record is waiting for the main thread,
\* and only the main thread has changed the widget.
C18_Witness ==
    /\ log.offMain
    /\ log.touched = {MainThread}
    /\ Len(log.widget) = Capacity
    /\ log.widget[1].text > 1
    /\ log.posted # <<>>

\* Whether the last handler call was a folder creation that made a Folder.
CreatesFolder ==
    \/ last'.op = "new_folder"
    \/ last'.op = "new_topfolder" /\ last'.answer \in {"Yes", "Elsewhere"}

\* Whether persist is called for e in q with an unsuspend call after it.
PersistedBeforeResume(q, e) ==
    \E i, j \in 1..Len(q) : i < j /\ q[i] = <<"persist", e>> /\ q[j][1] = "unsuspend"

\* C19: every folder creation that puts a Folder into the configuration,
\* below a Folder, at top level in the default location or at top level in
\* a directory of the user's choice, persists that Folder before it resumes
\* the monitor, leaves its node as the only selected one with the Folder
\* loaded in the page, and starts the editing of its label.
C19_FolderCreationPersists ==
    [][(CreatesFolder /\ ~last'.raised) =>
          \E f \in Created :
              /\ Created = {f}
              /\ IsFolder(Post, f)
              /\ Listings(Post, f) = 1
              /\ PersistedBeforeResume(trace', f)
              /\ \E n \in InTree(Post) : node'[n].ent = f /\ sel' = {n}
              /\ loaded' = f
              /\ Called(trace', "editItem", None)]_vars

\* C20: a paste with an empty clipboard returns without an error, leaves
\* every entity, every node, the lists and the (empty) clipboard as they
\* were, and has resumed the monitor when it returns.
C20_EmptyPasteIsNoOp ==
    [][(last'.op = "paste" /\ clip = <<>>) =>
          /\ ~last'.raised
          /\ \A e \in LiveEnts(Cur) : ent'[e] = ent[e]
          /\ \A n \in InTree(Cur) : node'[n] = node[n]
          /\ folders' = folders /\ top' = top /\ clip' = <<>>
          /\ Called(trace', "unsuspend", None)
          /\ ~suspended']_vars

\* C21: after move_items, whatever the source nodes and whatever Folder
\* node of the tree the target is (one of the sources or a node inside a
\* moved Folder included), no entity is above itself along the parent
\* pointers, and every moved entity is listed, at some depth, under the root
\* folder list.
C21_MoveKeepsForest ==
    [][last'.op = "move" =>
          /\ \A e \in LiveEnts(Post) \cup MovedEntities :
                 ~IsAbove(Post, e, e, MaxEntities)
          /\ MovedEntities \subseteq Attached(Post)]_vars

\* The calls that take an entity out of the list that holds it, and those
\* that put it into a list.
DetachCalls == {"remove_folder", "remove_item", "folders.remove"}
AttachCalls == {"add_folder", "add_item"}

\* In the calls q, e is detached, then its data removed, then e attached
\* and then persisted, and hotkey_removed is called before the detachment
\* for every entity of H.
RemovedThenAttached(q, e, H) ==
    \E d, r, a, p \in 1..Len(q) :
        /\ d < r /\ r < a /\ a < p
        /\ q[d][1] \in DetachCalls /\ q[d][2] = e
        /\ q[r] = <<"remove_data", e>>
        /\ q[a][1] \in AttachCalls /\ q[a][2] = e
        /\ q[p] = <<"persist", e>>
        /\ \A x \in H : \E h \in 1..(d - 1) : q[h] = <<"hotkey_removed", x>>

\* C22: a move that returns has, for every moved entity, called
\* hotkey_removed for the entity if it has HOTKEY in its modes and for every
\* entity below it that has, then detached the entity, then called
\* remove_data on it, and only then attached it under the target and
\* persisted it; it calls hotkey_removed for no entity without HOTKEY and for
\* none outside the moved subtrees.  In every handler that returns (move,
\* cut and delete are those that detach), each detachment of an entity comes
\* after the hotkey_removed call for it, if it has HOTKEY, and before a
\* remove_data call on it.
C22_MoveUnregistersHotkeys ==
    /\ [][(last'.op = "move" /\ ~last'.raised) =>
             /\ \A e \in MovedEntities :
                    RemovedThenAttached(trace', e, {x \in Subtree(Cur, e) : ent[x].hotkey})
             /\ \A x \in Ents :
                    Called(trace', "hotkey_removed", x) =>
                        /\ ent[x].hotkey
                        /\ \E e \in MovedEntities : x \in Subtree(Cur, e)]_vars
    /\ [][~last'.raised =>
              \A d \in 1..Len(trace') :
                  trace'[d][1] \in DetachCalls =>
                      /\ ent[trace'[d][2]].hotkey =>
                             \E h \in 1..(d - 1) :
                                 trace'[h] = <<"hotkey_removed", trace'[d][2]>>
                      /\ \E r \in (d + 1)..Len(trace') :
                             trace'[r] = <<"remove_data", trace'[d][2]>>]_vars

\* A Folder has been moved and hotkey_removed was called for an entity
\* below it.
C22_Witness ==
    /\ last.op = "move" /\ ~last.raised
    /\ \E f, x \in Ents :
           /\ IsFolder(Cur, f)
           /\ IsAbove(Cur, f, x, MaxEntities)
           /\ ent[x].hotkey
           /\ RemovedThenAttached(trace, f, {x})

====
